---- MODULE Spec2Model ----
(***************************************************************************)
(* The generation task pipeline of the Rikka-TTS client (App.tsx, the      *)
(* variant with placeholder cards, splitting, concurrent dispatch and      *)
(* auto-play), with the playback chain and the debounced message store.    *)
(*                                                                         *)
(* JavaScript runs every handler and every promise continuation to its     *)
(* next await without interleaving, so one action is one such run: a user  *)
(* event (submit, stop, play, delete, clear), a timer firing, or the       *)
(* settling of one awaited call together with everything the continuation  *)
(* does before it awaits again (reconciling the record, moving on to the   *)
(* next task of a sequential batch, ending the batch).                     *)
(***************************************************************************)
EXTENDS Integers, Sequences, FiniteSets, TLC

VARIABLES
  messages,           \* useState<AudioMessage[]>, newest first
  isLoading,          \* useState(false): the pipeline is busy
  stopGenerationRef,  \* useRef(false): the shared cancellation flag
  enableSplit,        \* setting read from localStorage at construction
  enableConcurrent,   \* setting read from localStorage at construction
  selectedModel,      \* the model id handed to generateSpeech
  isAutoPlayEnabled,  \* setting read from localStorage at construction
  activePlayingId,    \* id of the active message, or NoId
  apiKey,             \* a non-blank credential is configured
  tasks,              \* the {id, text} tasks of the running (or last) batch
  pc,                 \* per task: the await at which processSingleTask is suspended
  attempt,            \* per task: number of generateSpeech calls started
  failures,           \* per task: number of generateSpeech calls that were rejected
  outcome,            \* per task: how processSingleTask ended
  logs,               \* per task: console entries it produced, counted by type
  generateLog,        \* the console entry handleGenerate wrote before dispatching
  stopRequested,      \* handleStop has set the flag during the running (or last) batch
  now,                \* Date.now() of the last submission
  submitted,          \* the text handed to handleGenerate by the last submission
  storage,            \* localStorage[SILICONFLOW_MESSAGES]
  saveTimer,          \* the 500 ms save timer is armed
  armedWith,          \* the messages the armed timer's callback closes over
  mounted,            \* the App component is mounted: the session is running
  request,            \* the gateway operation called last, or NoRequest
  response,           \* the HTTP response it received
  raised,             \* the message of the Error it threw, or NoError
  caller,             \* the handler that called it
  logEntry,           \* the entry that handler passed to onLog, or NoEntry
  voiceError,         \* ModelVoiceSelector: useState<string | null>(null)
  alertText           \* the text that handler passed to alert(), or NoError

vars == << messages, isLoading, stopGenerationRef, enableSplit, enableConcurrent,
           selectedModel, isAutoPlayEnabled, activePlayingId, apiKey, tasks, pc, attempt,
           failures, outcome, logs, generateLog, stopRequested, now, submitted, storage,
           saveTimer, armedWith, mounted, request, response, raised, caller, logEntry,
           voiceError, alertText >>

\* what the voice handlers of SettingsMenu and ModelVoiceSelector read and write
gatewayVars == << request, response, raised, caller, logEntry, voiceError, alertText >>

----------------------------------------------------------------------------
(* Bounds of the model *)

MaxSegments == 2       \* lines of the longest text submitted under Spec
MaxSubmits == 1        \* submissions per session
MaxAttempts == 3       \* the gateway fails at most MaxAttempts - 1 times in a row for one task
MaxHistory == 1        \* records found in localStorage at start-up
StorageCapacity == 2   \* records that fit the localStorage quota
RandSuffixes == 2      \* distinct values of Math.random().toString().slice(2, 6)
MaxTextLen == 4        \* length of the texts drawn under SpecSplit
MaxGenLen == 3         \* length of the texts drawn under SpecGenerate

----------------------------------------------------------------------------
(* Text: a string is a sequence of one-character strings *)

NL == "\n"
Whitespace == {" ", NL}
Letters == <<"a", "b", "c", "d">>

NoId == [t |-> -1, r |-> 0]

\* String.prototype.trim
RECURSIVE TrimLeft(_)
TrimLeft(s) ==
  IF s # << >> /\ Head(s) \in Whitespace THEN TrimLeft(Tail(s)) ELSE s

RECURSIVE TrimRight(_)
TrimRight(s) ==
  IF s # << >> /\ s[Len(s)] \in Whitespace
  THEN TrimRight(SubSeq(s, 1, Len(s) - 1)) ELSE s

Trim(s) == TrimRight(TrimLeft(s))

\* String.prototype.split('\n'): the pieces between the newlines, empty ones included
RECURSIVE SplitLines(_, _)
SplitLines(s, cur) ==
  IF s = << >> THEN << cur >>
  ELSE IF Head(s) = NL THEN << cur >> \o SplitLines(Tail(s), << >>)
  ELSE SplitLines(Tail(s), Append(cur, Head(s)))

MapTrim(ls) == [k \in 1..Len(ls) |-> Trim(ls[k])]

\* the filter letting every line through
NonEmpty_KeepAll(l) == TRUE

NonEmpty(l) == Len(l) > 0

\* the split without the trim of each line
SplitText_NoTrim(text) == SelectSeq(SplitLines(text, << >>), NonEmpty)

\* text.split('\n').map(l => l.trim()).filter(l => l.length > 0)
SplitText(text) == SelectSeq(MapTrim(SplitLines(text, << >>)), NonEmpty)

\* textsToGenerate of handleGenerate
TextsToGenerate(text) == IF enableSplit THEN SplitText(text) ELSE << text >>

----------------------------------------------------------------------------
(* Models, error messages, records *)

TTS_MODELS == {"IndexTeam/IndexTTS-2", "FunAudioLLM/CosyVoice2-0.5B", "fnlp/MOSS-TTSD-v0.5"}

\* the family test written as an exact match: no model id passes it
RetryProne_ExactMatch(model) == model = "IndexTTS"

\* the family test written so that every model id passes it
RetryProne_AnyModel(model) == model \in TTS_MODELS

\* selectedModel.includes('IndexTTS')
RetryProne(model) == model = "IndexTeam/IndexTTS-2"

StoppedMsg == "Stopped"
UserStoppedMsg == "User manually stopped generation."

\* messages parseResponseError can build from a provider response
GatewayErrors == {"Speech generation failed (500)", "Stopped", "Model service stopped"}

\* msg.includes("stopped")
IncludesStopped(msg) == msg \in {UserStoppedMsg, "Model service stopped"}

\* how the dispatcher's catch block recognises the cancellation sentinel
ConcurrentIsStop(msg) == msg = StoppedMsg
SequentialIsStop(msg) == msg = StoppedMsg \/ IncludesStopped(msg)
IsStopSentinel(msg) ==
  IF enableConcurrent THEN ConcurrentIsStop(msg) ELSE SequentialIsStop(msg)

NoLogs == [warning |-> 0, error |-> 0, success |-> 0, info |-> 0]

\* the entries handleGenerate writes before it dispatches
NoLog == [type |-> "none", message |-> ""]
ApiKeyMissingLog ==
  [type |-> "error", message |-> "Please set your API Key in the settings menu first."]
NoValidTextLog == [type |-> "warning", message |-> "No valid text found after splitting lines."]
SplittingLog == [type |-> "info", message |-> "Splitting enabled."]
GeneratingLog == [type |-> "info", message |-> "Generating speech..."]

AddLog(lg, i, type) == [lg EXCEPT ![i][type] = @ + 1]

Placeholder(task) ==
  [id |-> task.id, text |-> task.text, audioUrl |-> << >>,
   status |-> "pending", errorMessage |-> ""]

\* prev.map(msg => msg.id === task.id ? {...msg, audioUrl, cost, generationTime, status: 'success'} : msg)
MarkSuccess(msgs, task) ==
  [k \in 1..Len(msgs) |->
     IF msgs[k].id = task.id
     THEN [msgs[k] EXCEPT !.audioUrl = task.text, !.status = "success"]
     ELSE msgs[k]]

\* prev.map(m => m.id === task.id ? {...m, status: 'error', errorMessage: msg} : m)
MarkError(msgs, task, msg) ==
  [k \in 1..Len(msgs) |->
     IF msgs[k].id = task.id
     THEN [msgs[k] EXCEPT !.status = "error", !.errorMessage = msg]
     ELSE msgs[k]]

NotPending(m) == m.status # "pending"

\* if (stopGenerationRef.current) setMessages(prev => prev.filter(m => m.status !== 'pending'))
Cleanup(msgs, stop) == IF stop THEN SelectSeq(msgs, NotPending) ELSE msgs

\* the filter of the save letting every record through
Savable_All(m) == TRUE

Savable(m) == m.status # "pending" /\ m.status # "error"

\* messages.filter(m => m.status !== 'pending' && m.status !== 'error')
MessagesToSave(msgs) == SelectSeq(msgs, Savable)

RemoveAt(s, k) == SubSeq(s, 1, k - 1) \o SubSeq(s, k + 1, Len(s))

\* the updater dropping the success record closest to the head
Evict_NewestSuccess(prev) ==
  LET succ == {k \in 1..Len(prev) : prev[k].status = "success"}
  IN IF succ # {}
     THEN RemoveAt(prev, CHOOSE k \in succ : \A j \in succ : k <= j)
     ELSE SubSeq(prev, 1, Len(prev) - 1)

\* the updater of the quota branch: drop the success record closest to the tail, else the last record
Evict(prev) ==
  LET succ == {k \in 1..Len(prev) : prev[k].status = "success"}
  IN IF succ # {}
     THEN RemoveAt(prev, CHOOSE k \in succ : \A j \in succ : j <= k)
     ELSE SubSeq(prev, 1, Len(prev) - 1)

Ids(msgs) == {msgs[k].id : k \in 1..Len(msgs)}

----------------------------------------------------------------------------
(* The state after construction: settings and history as localStorage has them *)

\* the timer has fired or was cleared: no callback holds a list
NoSnapshot == << >>

NoRequest == "none"
NoResponse == [ok |-> TRUE, status |-> 0, body |-> "none"]
NoError == ""
NoCaller == "none"
NoEntry == [type |-> "none", message |-> ""]

HistoryRecord(k) ==
  [id |-> [t |-> 0, r |-> k], text |-> << "h" >>, audioUrl |-> << "h" >>,
   status |-> "success", errorMessage |-> ""]

History(n) == [k \in 1..n |-> HistoryRecord(k)]

Init ==
  /\ \E n \in 0..MaxHistory : storage = History(n) /\ messages = History(n)
  /\ isLoading = FALSE
  /\ stopGenerationRef = FALSE
  /\ enableSplit \in BOOLEAN
  /\ enableConcurrent \in BOOLEAN
  /\ selectedModel \in TTS_MODELS
  /\ isAutoPlayEnabled \in BOOLEAN
  /\ activePlayingId = NoId
  /\ apiKey \in BOOLEAN
  /\ tasks = << >>
  /\ pc = << >>
  /\ attempt = << >>
  /\ failures = << >>
  /\ outcome = << >>
  /\ logs = << >>
  /\ generateLog = NoLog
  /\ stopRequested = FALSE
  /\ now = 0
  /\ submitted = << >>
  /\ saveTimer = TRUE
  /\ armedWith = messages
  /\ mounted = TRUE
  /\ request = NoRequest
  /\ response = NoResponse
  /\ raised = NoError
  /\ caller = NoCaller
  /\ logEntry = NoEntry
  /\ voiceError = NoError
  /\ alertText = NoError

----------------------------------------------------------------------------
(* The dispatcher of handleGenerate *)

\* the batch taken as over when the first call has settled
AllDone_Any(p) == \E j \in 1..Len(p) : p[j] = "done"

AllDone(p) == \A j \in 1..Len(p) : p[j] = "done"

\* the loop without its check of the cancellation flag
LoopContinues_NoStopCheck(i, isStop) ==
  /\ ~isStop
  /\ i < Len(tasks)

\* for (const task of tasks) { if (stopGenerationRef.current) break; ... }: after
\* task i the loop goes on to task i + 1 unless the catch block broke out of it
LoopContinues(i, isStop) ==
  /\ ~isStop
  /\ i < Len(tasks)
  /\ ~stopGenerationRef

\* What follows the end of processSingleTask(tasks[i]) in handleGenerate: the catch
\* block of the dispatcher, then the next task of a sequential batch or, when no
\* call of the batch is left, the cleanup and the finally block.
\*   kind: "ok" (returned), "cancelled" (thrown at a stop check), "failed" (thrown by a call)
\*   msg:  the message of the thrown error
\*   msgs, lg, touched: the list and the console after processSingleTask, and
\*   whether it called setMessages
Settle(i, kind, msg, msgs, lg, touched) ==
  LET thrown    == kind # "ok"
      isStop    == thrown /\ IsStopSentinel(msg)
      recordErr == thrown /\ ~isStop
      msgs2     == IF recordErr THEN MarkError(msgs, tasks[i], msg) ELSE msgs
      lg2       == IF recordErr THEN AddLog(lg, i, "error")
                   ELSE IF isStop /\ ~enableConcurrent THEN AddLog(lg, i, "info")
                   ELSE lg
      pc2       == [pc EXCEPT ![i] = "done"]
      startNext == ~enableConcurrent /\ LoopContinues(i, isStop)
      finished  == IF enableConcurrent THEN AllDone(pc2) ELSE ~startNext
      \* setMessages was called: the [messages] effect clears the timer and arms a new one
      rearmed   == touched \/ recordErr \/ (finished /\ stopGenerationRef)
  IN /\ outcome' = [outcome EXCEPT ![i] = kind]
     /\ logs' = lg2
     /\ pc' = IF startNext THEN [pc2 EXCEPT ![i + 1] = "synth"] ELSE pc2
     /\ attempt' = IF startNext THEN [attempt EXCEPT ![i + 1] = 1] ELSE attempt
     /\ messages' = IF finished THEN Cleanup(msgs2, stopGenerationRef) ELSE msgs2
     /\ isLoading' = ~finished
     /\ stopGenerationRef' = IF finished THEN FALSE ELSE stopGenerationRef
     /\ saveTimer' = (saveTimer \/ rearmed)
     /\ armedWith' = IF rearmed THEN messages' ELSE armedWith
     /\ UNCHANGED << mounted, gatewayVars, enableSplit, enableConcurrent, selectedModel, generateLog,
                     isAutoPlayEnabled, activePlayingId, apiKey, tasks, stopRequested, now,
                     submitted, storage >>

\* the placeholders appended behind the existing records
InsertPlaceholders_Append(newPlaceholders, prev) == prev \o newPlaceholders

\* setMessages(prev => [...newPlaceholders, ...prev])
InsertPlaceholders(newPlaceholders, prev) == newPlaceholders \o prev

\* every task started at once, whatever the dispatch mode
Dispatched_All(k) == TRUE

\* the tasks whose processSingleTask is called before handleGenerate first awaits:
\* all of them under tasks.map(async ...), the first one under the for loop
Dispatched(k) == enableConcurrent \/ k = 1

\* handleGenerate(text), called by InputArea.handleSubmit; rnd[i] is the random
\* suffix of the i-th task id
handleGenerate(text, rnd) ==
  LET texts == TextsToGenerate(text)
      n     == Len(texts)
      newTasks == [k \in 1..n |-> [id |-> [t |-> now + 1, r |-> rnd[k]], text |-> texts[k]]]
      newPlaceholders == [k \in 1..n |-> Placeholder(newTasks[k])]
  IN /\ IF ~apiKey
        THEN \* if (!apiKey || !apiKey.trim()) { addLog(..., 'error'); return; }
             /\ generateLog' = ApiKeyMissingLog
             /\ UNCHANGED << messages, isLoading, stopGenerationRef, tasks, pc, attempt,
                             failures, outcome, logs, stopRequested, now, submitted, saveTimer,
                             armedWith >>
        ELSE /\ IF n = 0
                THEN \* addLog("No valid text found after splitting lines.", 'warning');
                     \* setIsLoading(false); return; and the finally block
                     /\ generateLog' = NoValidTextLog
                     /\ stopGenerationRef' = FALSE
                     /\ isLoading' = FALSE
                     /\ UNCHANGED << messages, tasks, pc, attempt, failures, outcome, logs,
                                     stopRequested, now, saveTimer, armedWith >>
                ELSE /\ generateLog' = IF enableSplit THEN SplittingLog ELSE GeneratingLog
                     /\ stopGenerationRef' = FALSE
                     /\ isLoading' = TRUE
                     /\ tasks' = newTasks
                     /\ messages' = InsertPlaceholders(newPlaceholders, messages)
                     /\ pc' = [k \in 1..n |-> IF Dispatched(k) THEN "synth" ELSE "new"]
                     /\ attempt' = [k \in 1..n |-> IF Dispatched(k) THEN 1 ELSE 0]
                     /\ failures' = [k \in 1..n |-> 0]
                     /\ outcome' = [k \in 1..n |-> "none"]
                     /\ logs' = [k \in 1..n |-> NoLogs]
                     /\ stopRequested' = FALSE
                     /\ now' = now + 1
                     /\ saveTimer' = TRUE
                     /\ armedWith' = messages'
             /\ submitted' = text
     /\ UNCHANGED << mounted, gatewayVars, enableSplit, enableConcurrent, selectedModel, isAutoPlayEnabled,
                     activePlayingId, apiKey, storage >>

\* InputArea: the button submits only when idle and the text is not blank
handleSubmit(text, rnd) ==
  /\ ~isLoading
  /\ Trim(text) # << >>
  /\ now < MaxSubmits
  /\ handleGenerate(text, rnd)

\* the stop button that leaves the flag alone
handleStop_NoFlag ==
  /\ isLoading
  /\ ~stopRequested
  /\ stopRequested' = TRUE
  /\ UNCHANGED << messages, isLoading, stopGenerationRef, mounted, gatewayVars, enableSplit,
                  enableConcurrent, selectedModel, generateLog, isAutoPlayEnabled,
                  activePlayingId, apiKey, tasks, pc, attempt, failures, outcome, logs, now,
                  submitted, storage, saveTimer, armedWith >>

\* handleStop
handleStop ==
  /\ isLoading
  /\ stopGenerationRef' = TRUE
  /\ stopRequested' = TRUE
  /\ UNCHANGED << messages, isLoading, mounted, gatewayVars, enableSplit, enableConcurrent, selectedModel, generateLog,
                  isAutoPlayEnabled, activePlayingId, apiKey, tasks, pc, attempt,
                  failures, outcome, logs, now, submitted, storage, saveTimer, armedWith >>

----------------------------------------------------------------------------
(* processSingleTask: one action per awaited call that settles *)

Suspend(i, at) ==
  /\ pc' = [pc EXCEPT ![i] = at]
  /\ UNCHANGED << messages, isLoading, stopGenerationRef, mounted, gatewayVars, enableSplit, enableConcurrent,
                  selectedModel, generateLog, isAutoPlayEnabled, activePlayingId, apiKey, tasks,
                  outcome, stopRequested, now, submitted, storage, saveTimer, armedWith >>

\* generateSpeech resolves with a blob URL; if (stopGenerationRef.current) throw new Error("Stopped")
synthResolved(i) ==
  /\ i \in 1..Len(tasks) /\ pc[i] = "synth"
  /\ UNCHANGED failures
  /\ IF stopGenerationRef
     THEN Settle(i, "cancelled", StoppedMsg, messages, logs, FALSE)
     ELSE Suspend(i, "fetch") /\ UNCHANGED << attempt, logs >>

\* generateSpeech rejects with a gateway error
synthRejected(i, msg) ==
  /\ i \in 1..Len(tasks) /\ pc[i] = "synth"
  /\ failures' = [failures EXCEPT ![i] = @ + 1]
  /\ IF RetryProne(selectedModel)
     THEN /\ stopGenerationRef \/ attempt[i] < MaxAttempts
          /\ IF stopGenerationRef
             THEN Settle(i, "cancelled", UserStoppedMsg, messages, logs, FALSE)
             ELSE /\ Suspend(i, "delay")
                  /\ logs' = AddLog(logs, i, "warning")
                  /\ UNCHANGED attempt
     ELSE Settle(i, "failed", msg, messages, logs, FALSE)

\* the one-second retry delay elapses
delayElapsed(i) ==
  /\ i \in 1..Len(tasks) /\ pc[i] = "delay"
  /\ UNCHANGED failures
  /\ IF stopGenerationRef
     THEN Settle(i, "cancelled", UserStoppedMsg, messages, logs, FALSE)
     ELSE /\ Suspend(i, "synth")
          /\ attempt' = [attempt EXCEPT ![i] = @ + 1]
          /\ UNCHANGED logs

\* fetch(blobUrl) resolves
fetchResolved(i) ==
  /\ i \in 1..Len(tasks) /\ pc[i] = "fetch"
  /\ Suspend(i, "blob") /\ UNCHANGED << attempt, failures, logs >>

\* response.blob() resolves
blobResolved(i) ==
  /\ i \in 1..Len(tasks) /\ pc[i] = "blob"
  /\ Suspend(i, "encode") /\ UNCHANGED << attempt, failures, logs >>

\* blobToBase64 resolves: the record is reconciled to success
encodeResolved(i) ==
  /\ i \in 1..Len(tasks) /\ pc[i] = "encode"
  /\ UNCHANGED failures
  /\ Settle(i, "ok", "", MarkSuccess(messages, tasks[i]), AddLog(logs, i, "success"), TRUE)

\* generateSpeech of a retry-prone model rejects on the MaxAttempts-th attempt and on
\* every later one: the gateway that never recovers. The counters stay at their caps.
synthRejectedAgain(i) ==
  /\ i \in 1..Len(tasks) /\ pc[i] = "synth"
  /\ RetryProne(selectedModel)
  /\ attempt[i] >= MaxAttempts
  /\ ~stopGenerationRef
  /\ failures' = [failures EXCEPT ![i] = IF @ < MaxAttempts THEN @ + 1 ELSE @]
  /\ logs' = IF failures[i] < MaxAttempts THEN AddLog(logs, i, "warning") ELSE logs
  /\ Suspend(i, "delay")
  /\ UNCHANGED attempt

\* the retry delay after such a rejection elapses
delayElapsedAgain(i) ==
  /\ i \in 1..Len(tasks) /\ pc[i] = "delay"
  /\ attempt[i] >= MaxAttempts
  /\ ~stopGenerationRef
  /\ Suspend(i, "synth")
  /\ UNCHANGED << attempt, failures, logs >>

----------------------------------------------------------------------------
(* Playback chain, deletion, clearing *)

HasSuccess(id) == \E k \in 1..Len(messages) : messages[k].id = id /\ messages[k].status = "success"

\* findIndex: position of the first record with this id, 0 when there is none
FindIndex(msgs, id) ==
  IF id \in Ids(msgs) THEN CHOOSE k \in 1..Len(msgs) :
       msgs[k].id = id /\ \A j \in 1..(k - 1) : msgs[j].id # id
  ELSE 0

\* handleAudioPlay, reached from togglePlay of a success card
handleAudioPlay(id) ==
  /\ HasSuccess(id)
  /\ activePlayingId' = id
  /\ UNCHANGED << messages, isLoading, stopGenerationRef, mounted, gatewayVars, enableSplit, enableConcurrent,
                  selectedModel, generateLog, isAutoPlayEnabled, apiKey, tasks, pc, attempt, failures, outcome,
                  logs, stopRequested, now, submitted, storage, saveTimer, armedWith >>

\* the active id handleAudioEnded(endedId) installs
NextActiveId(endedId) ==
  LET currentIndex == FindIndex(messages, endedId)
      nextIndex == currentIndex + 1
  IN IF ~isAutoPlayEnabled THEN NoId
     ELSE IF currentIndex = 0 THEN activePlayingId
     ELSE IF nextIndex <= Len(messages) /\ messages[nextIndex].status = "success"
          THEN messages[nextIndex].id
     ELSE NoId

\* handleAudioEnded, reached from onEnded of the card that is playing
handleAudioEnded(endedId) ==
  /\ activePlayingId = endedId
  /\ HasSuccess(endedId)
  /\ activePlayingId' = NextActiveId(endedId)
  /\ UNCHANGED << messages, isLoading, stopGenerationRef, mounted, gatewayVars, enableSplit, enableConcurrent,
                  selectedModel, generateLog, isAutoPlayEnabled, apiKey, tasks, pc, attempt, failures, outcome,
                  logs, stopRequested, now, submitted, storage, saveTimer, armedWith >>

\* handleDeleteMessage, reached from the delete button of an error or success card
handleDeleteMessage(id) ==
  /\ \E k \in 1..Len(messages) : messages[k].id = id /\ messages[k].status # "pending"
  /\ messages' = SelectSeq(messages, LAMBDA m : m.id # id)
  /\ activePlayingId' = IF activePlayingId = id THEN NoId ELSE activePlayingId
  /\ saveTimer' = TRUE
  /\ armedWith' = messages'
  /\ UNCHANGED << isLoading, stopGenerationRef, mounted, gatewayVars, enableSplit, enableConcurrent,
                  selectedModel, generateLog, isAutoPlayEnabled, apiKey, tasks, pc, attempt, failures, outcome,
                  logs, stopRequested, now, submitted, storage >>

\* the clear without localStorage.removeItem
handleClearCache_KeepsStore ==
  /\ messages' = << >>
  /\ activePlayingId' = NoId
  /\ saveTimer' = TRUE
  /\ armedWith' = messages'
  /\ UNCHANGED << isLoading, stopGenerationRef, mounted, gatewayVars, enableSplit, enableConcurrent,
                  selectedModel, generateLog, isAutoPlayEnabled, apiKey, tasks, pc, attempt,
                  failures, outcome, logs, stopRequested, now, submitted, storage >>

\* handleClearCache
handleClearCache ==
  /\ messages' = << >>
  /\ storage' = << >>
  /\ activePlayingId' = NoId
  /\ saveTimer' = TRUE
  /\ armedWith' = messages'
  /\ UNCHANGED << isLoading, stopGenerationRef, mounted, gatewayVars, enableSplit, enableConcurrent,
                  selectedModel, generateLog, isAutoPlayEnabled, apiKey, tasks, pc, attempt, failures, outcome,
                  logs, stopRequested, now, submitted >>

----------------------------------------------------------------------------
(* Persisted message store *)

\* localStorage.setItem throws QuotaExceededError
QuotaExceeded(toSave) == Len(toSave) > StorageCapacity

\* Every action that calls setMessages models the re-run of the [messages] effect
\* with it: the cleanup clears the armed timer and a new one is armed that closes
\* over the new list (armedWith).
\* saveMessagesToStorage, run by the timer the [messages] effect arms;
\* throws: localStorage.setItem raises QuotaExceededError
saveMessagesToStorage(throws) ==
  /\ saveTimer
  /\ LET messagesToSave == MessagesToSave(armedWith)
     IN IF ~throws
        THEN /\ storage' = messagesToSave
             /\ saveTimer' = FALSE
             /\ armedWith' = NoSnapshot
             /\ UNCHANGED messages
        ELSE /\ messages' = (IF Len(armedWith) > 0 THEN Evict(messages) ELSE messages)
             /\ saveTimer' = (Len(armedWith) > 0)
             /\ armedWith' = (IF Len(armedWith) > 0 THEN messages' ELSE NoSnapshot)
             /\ UNCHANGED storage
  /\ UNCHANGED << isLoading, stopGenerationRef, mounted, gatewayVars, enableSplit, enableConcurrent,
                  selectedModel, generateLog, isAutoPlayEnabled, activePlayingId, apiKey, tasks, pc,
                  attempt, failures, outcome, logs, stopRequested, now, submitted >>

\* the unmount that leaves the save timer armed
unmount_KeepsTimer ==
  /\ mounted
  /\ mounted' = FALSE
  /\ UNCHANGED << messages, isLoading, stopGenerationRef, enableSplit, enableConcurrent,
                  selectedModel, isAutoPlayEnabled, activePlayingId, apiKey, tasks, pc, attempt,
                  failures, outcome, logs, generateLog, stopRequested, now, submitted, storage,
                  saveTimer, armedWith, gatewayVars >>

\* App is unmounted: the cleanup of the [messages] effect runs clearTimeout(timer)
unmount ==
  /\ mounted
  /\ mounted' = FALSE
  /\ saveTimer' = FALSE
  /\ armedWith' = NoSnapshot
  /\ UNCHANGED << messages, isLoading, stopGenerationRef, enableSplit, enableConcurrent,
                  selectedModel, isAutoPlayEnabled, activePlayingId, apiKey, tasks, pc, attempt,
                  failures, outcome, logs, generateLog, stopRequested, now, submitted, storage,
                  gatewayVars >>

----------------------------------------------------------------------------
(* Remote speech gateway: the five operations and the handlers that call them *)

\* every variable of the pipeline, the playback chain and the store
appVars == << messages, isLoading, stopGenerationRef, enableSplit, enableConcurrent,
              selectedModel, isAutoPlayEnabled, activePlayingId, apiKey, tasks, pc, attempt,
              failures, outcome, logs, generateLog, stopRequested, now, submitted, storage,
              saveTimer, armedWith, mounted >>

\* text.length < 200
ShortLimit == 200

RECURSIVE Filler(_)
Filler(n) == IF n = 0 THEN "" ELSE "x" \o Filler(n - 1)

\* s.includes(sub)
Includes(s, sub) ==
  \E k \in 1..(Len(s) - Len(sub) + 1) : SubSeq(s, k, k + Len(sub) - 1) = sub

\* s.substring(0, n)
Substring0(s, n) == SubSeq(s, 1, IF Len(s) < n THEN Len(s) ELSE n)

\* a field the parsed body does not have
NoField == [type |-> "absent", message |-> "", text |-> ""]

\* a body JSON.parse accepts, with the fields the gateway reads from the parsed value;
\* "" and 0 stand for a field that is missing or falsy
Json(raw, message, code, error) ==
  [raw |-> raw, parses |-> TRUE, message |-> message, code |-> code, error |-> error,
   text |-> ""]

\* a body JSON.parse rejects
Raw(raw) ==
  [raw |-> raw, parses |-> FALSE, message |-> "", code |-> 0, error |-> NoField, text |-> ""]

\* the bodies a provider response is drawn from
Bodies ==
  { Json("{\"code\":20015,\"message\":\"Voice not found\"}", "Voice not found", 20015, NoField),
    Json("{\"message\":\"Invalid token\"}", "Invalid token", 0, NoField),
    Json("{\"message\":\"HTTP 401 Unauthorized\"}", "HTTP 401 Unauthorized", 0, NoField),
    Json("{\"error\":{\"message\":\"Rate limited\"}}", "", 0,
         [type |-> "object", message |-> "Rate limited", text |-> "{\"message\":\"Rate limited\"}"]),
    Json("{\"error\":{\"type\":\"auth\"}}", "", 0,
         [type |-> "object", message |-> "", text |-> "{\"type\":\"auth\"}"]),
    Json("{\"error\":\"Forbidden\"}", "", 0,
         [type |-> "string", message |-> "", text |-> "Forbidden"]),
    Json("{\"code\":20015}", "", 20015, NoField),
    Json("{}", "", 0, NoField),
    [Json("{\"text\":\"hello\"}", "", 0, NoField) EXCEPT !.text = "hello"],
    Raw("Bad Gateway"),
    Raw(""),
    Raw(Filler(ShortLimit)) }

\* the statuses a provider response is drawn from; response.ok is status 200..299
Statuses == {200, 401, 500}

Responses == {[ok |-> st = 200, status |-> st, body |-> b] : st \in Statuses, b \in Bodies}

\* message of the SyntaxError response.json() rejects with
SyntaxErrorMsg == "Unexpected token in JSON"

\* parseResponseError(response, context): the message of the Error it returns
parseResponseError(resp, context) ==
  LET text    == resp.body.raw
      json    == resp.body
      generic == context \o " failed (" \o ToString(resp.status) \o ")"
  IN IF json.parses
     THEN IF json.message # ""
          THEN IF json.code # 0
               THEN json.message \o " (Code: " \o ToString(json.code) \o ")"
               ELSE json.message
          ELSE IF json.error.type = "object"
               THEN IF json.error.message # "" THEN json.error.message ELSE json.error.text
          ELSE IF json.error.type = "string" THEN json.error.text
          ELSE generic
     ELSE IF Len(text) < ShortLimit THEN context \o ": " \o text ELSE generic

\* the five operations: the message of the Error thrown for a response, NoError when
\* the operation returns

fetchCustomVoices(resp) ==
  IF ~resp.ok THEN parseResponseError(resp, "Fetch voices")
  ELSE IF ~resp.body.parses THEN SyntaxErrorMsg
  ELSE NoError

transcribeAudio(resp) ==
  IF ~resp.ok THEN parseResponseError(resp, "Transcription")
  ELSE IF ~resp.body.parses THEN SyntaxErrorMsg
  ELSE NoError

uploadCustomVoice(resp) ==
  LET data == resp.body
  IN IF ~resp.ok THEN parseResponseError(resp, "Upload")
     ELSE IF data.raw # "" /\ ~data.parses
          THEN "Invalid server response: " \o Substring0(data.raw, 100)
     ELSE IF data.code # 0 /\ data.code # 200
          THEN IF data.message # "" THEN data.message
               ELSE "Upload failed with code " \o ToString(data.code)
     ELSE NoError

\* errorData = await response.json().catch(() => ({})); the literal of the source is
\* the Chinese for "unknown error"
deleteCustomVoice(resp) ==
  LET errorData == resp.body
  IN IF resp.ok THEN NoError
     ELSE IF errorData.parses /\ errorData.message # "" THEN errorData.message
     ELSE "Unknown error"

generateSpeech(resp) ==
  IF ~resp.ok THEN parseResponseError(resp, "Speech generation") ELSE NoError

\* onLog(message, type)
Entry(type, message) == [type |-> type, message |-> message]

\* what a handler leaves behind: the call it made and what it showed
Handled(who, op, resp, err, entry, verr, alerted) ==
  /\ caller' = who
  /\ request' = op
  /\ response' = resp
  /\ raised' = err
  /\ logEntry' = entry
  /\ voiceError' = verr
  /\ alertText' = alerted
  /\ UNCHANGED appVars

\* a handler that returns before it calls the gateway
Rejected(who, entry, verr) ==
  Handled(who, NoRequest, NoResponse, NoError, entry, verr, NoError)

ApiKeyFirst == Entry("error", "Please enter an API Key first.")

\* SettingsMenu.handleFetchList
handleFetchList(resp) ==
  LET e == fetchCustomVoices(resp)
  IN IF ~apiKey THEN Rejected("handleFetchList", ApiKeyFirst, voiceError)
     ELSE Handled("handleFetchList", "fetchCustomVoices", resp, e,
                  IF e # NoError THEN Entry("error", "Failed to fetch list: " \o e)
                  ELSE Entry("success", "Fetched voices successfully."),
                  voiceError, NoError)

\* ModelVoiceSelector.loadCustomVoices
loadCustomVoices(resp) ==
  LET msg == fetchCustomVoices(resp)
  IN IF ~apiKey THEN Rejected("loadCustomVoices", NoEntry, NoError)
     ELSE Handled("loadCustomVoices", "fetchCustomVoices", resp, msg, NoEntry,
                  IF msg # NoError /\ ~Includes(msg, "401") THEN msg ELSE NoError,
                  NoError)

\* SettingsMenu.handleTranscribe; uploadFile: an audio file is selected
handleTranscribe(resp, uploadFile) ==
  LET e == transcribeAudio(resp)
  IN IF ~apiKey THEN Rejected("handleTranscribe", ApiKeyFirst, voiceError)
     ELSE IF ~uploadFile
          THEN Rejected("handleTranscribe",
                        Entry("error", "Please select an audio file first."), voiceError)
     ELSE Handled("handleTranscribe", "transcribeAudio", resp, e,
                  IF e # NoError THEN Entry("error", "Transcription failed: " \o e)
                  ELSE IF resp.body.text # ""
                       THEN Entry("success", "Text recognition successful!")
                  ELSE Entry("info", "Recognition completed but no text was found."),
                  voiceError, NoError)

\* SettingsMenu.handleUpload; form: what the checks of the form find
handleUpload(resp, form) ==
  LET e == uploadCustomVoice(resp)
  IN IF ~apiKey THEN Rejected("handleUpload", ApiKeyFirst, voiceError)
     ELSE IF form = "incomplete"
          THEN Rejected("handleUpload",
                        Entry("error", "Please fill in all fields (Name, Text, and File)."),
                        voiceError)
     ELSE IF form = "badName"
          THEN Rejected("handleUpload", Entry("error", "Invalid name format."), voiceError)
     ELSE Handled("handleUpload", "uploadCustomVoice", resp, e,
                  IF e # NoError THEN Entry("error", "Upload failed: " \o e)
                  ELSE Entry("success", "Upload successful!"),
                  voiceError, NoError)

\* SettingsMenu.handleDelete, the click that confirms the deletion
SettingsMenu_handleDelete(resp) ==
  LET e == deleteCustomVoice(resp)
  IN Handled("SettingsMenu.handleDelete", "deleteCustomVoice", resp, e,
             IF e # NoError THEN Entry("error", "Delete failed: " \o e)
             ELSE Entry("success", "Deletion successful"),
             voiceError, NoError)

\* ModelVoiceSelector.handleDelete
ModelVoiceSelector_handleDelete(resp) ==
  LET e == deleteCustomVoice(resp)
  IN Handled("ModelVoiceSelector.handleDelete", "deleteCustomVoice", resp, e, NoEntry,
             voiceError, IF e # NoError THEN "Delete failed: " \o e ELSE NoError)

\* the catch blocks around generateSpeech: the retry loop of processSingleTask for a
\* retry-prone model, else the catch of the dispatcher in handleGenerate
speechCaught(resp) ==
  LET msg == generateSpeech(resp)
      isStop == msg = StoppedMsg \/ (~enableConcurrent /\ Includes(msg, "stopped"))
  IN /\ apiKey
     /\ Handled("handleGenerate", "generateSpeech", resp, msg,
                IF msg = NoError THEN Entry("success", "Generated")
                ELSE IF RetryProne(selectedModel)
                     THEN Entry("warning", "IndexTTS Attempt failed: " \o msg)
                ELSE IF isStop
                     THEN IF enableConcurrent THEN NoEntry
                          ELSE Entry("info", "Generation stopped by user.")
                ELSE Entry("error", "Failed to generate: " \o msg),
                voiceError, NoError)

----------------------------------------------------------------------------
(* Specifications *)

\* the texts submitted under Spec: n lines, with a blank line between two lines
RECURSIVE InputText(_)
InputText(n) ==
  IF n = 1 THEN << Letters[1] >>
  ELSE InputText(n - 1) \o << NL, " ", NL, Letters[n] >>

\* the random suffixes of a batch; ids are only ever compared for equality, so the
\* draws are taken up to renaming: a draw is an earlier value or the next unused one
Suffixes(n) ==
  {f \in [1..n -> 1..RandSuffixes] :
     \A k \in 1..n : \A v \in 1..(f[k] - 1) : \E j \in 1..(k - 1) : f[j] = v}

TaskIndex == 1..Len(tasks)

Submit ==
  /\ ~isLoading
  /\ \E n \in 1..MaxSegments : \E rnd \in Suffixes(MaxSegments) :
        handleSubmit(InputText(n), rnd)
SynthResolved == \E i \in TaskIndex : synthResolved(i)
SynthRejected == \E i \in TaskIndex : \E msg \in GatewayErrors : synthRejected(i, msg)
DelayElapsed == \E i \in TaskIndex : delayElapsed(i)
FetchResolved == \E i \in TaskIndex : fetchResolved(i)
BlobResolved == \E i \in TaskIndex : blobResolved(i)
EncodeResolved == \E i \in TaskIndex : encodeResolved(i)
Play == \E id \in Ids(messages) : handleAudioPlay(id)
Ended == \E id \in Ids(messages) : handleAudioEnded(id)
Delete == \E id \in Ids(messages) : handleDeleteMessage(id)
Save == saveMessagesToStorage(QuotaExceeded(MessagesToSave(armedWith)))

\* the pipeline with deletion, clearing and the store: every action that writes messages
Next ==
  \/ Submit
  \/ handleStop
  \/ SynthResolved
  \/ SynthRejected
  \/ DelayElapsed
  \/ FetchResolved
  \/ BlobResolved
  \/ EncodeResolved
  \/ Delete
  \/ handleClearCache
  \/ Save

Spec == Init /\ [][Next]_vars

\* a call in flight settles and the retry delay elapses; once a task has made
\* MaxAttempts attempts its call can only resolve: the gateway eventually succeeds
TaskStep ==
  \/ SynthResolved
  \/ SynthRejected
  \/ DelayElapsed
  \/ FetchResolved
  \/ BlobResolved
  \/ EncodeResolved

InitRetry == Init /\ selectedModel = "IndexTeam/IndexTTS-2" /\ apiKey /\ ~isAutoPlayEnabled

\* the pipeline running a retry-prone model, with the calls and timers making progress
SpecRetry == InitRetry /\ [][Next]_vars /\ WF_vars(TaskStep)

\* the quota is shared with every other key of the origin: here any save may fail
SaveAnyQuota == \E throws \in BOOLEAN : saveMessagesToStorage(throws)

InitStore == Init /\ apiKey /\ ~isAutoPlayEnabled

NextStore ==
  \/ Submit
  \/ SynthResolved
  \/ SynthRejected
  \/ DelayElapsed
  \/ FetchResolved
  \/ BlobResolved
  \/ EncodeResolved
  \/ SaveAnyQuota

\* the pipeline and the store, with a quota that may be exhausted at any save
SpecStore == InitStore /\ [][NextStore]_vars

InitPlayback == Init /\ apiKey /\ selectedModel = "FunAudioLLM/CosyVoice2-0.5B"

NextPlayback ==
  \/ Submit
  \/ SynthResolved
  \/ SynthRejected
  \/ FetchResolved
  \/ BlobResolved
  \/ EncodeResolved
  \/ Play
  \/ Ended
  \/ Delete
  \/ handleClearCache
  \/ Save

\* the cards of the list played, ended, deleted and cleared while a batch of a
\* model without retries fills the list
SpecPlayback == InitPlayback /\ [][NextPlayback]_vars

\* the texts drawn for the split
Chars == {"a", "b", " ", NL}
AllTexts == UNION {[1..n -> Chars] : n \in 1..MaxTextLen}

SubmitAnyText ==
  /\ ~isLoading
  /\ \E text \in AllTexts : \E rnd \in Suffixes(Len(TextsToGenerate(text))) :
        handleSubmit(text, rnd)

NextSplit == SubmitAnyText

\* one submission of an arbitrary text: the split applied by handleGenerate
SpecSplit == Init /\ [][NextSplit]_vars

GenTexts == UNION {[1..n -> Chars] : n \in 1..MaxGenLen}

\* handleGenerate handed any text at all while idle, blank texts included
GenerateAnyText ==
  /\ ~isLoading
  /\ now < MaxSubmits
  /\ \E text \in GenTexts : \E rnd \in Suffixes(Len(TextsToGenerate(text))) :
        handleGenerate(text, rnd)

NextGenerate == GenerateAnyText

\* the entry of the pipeline on its own: what handleGenerate does with a text
SpecGenerate == Init /\ [][NextGenerate]_vars

FormStates == {"ok", "incomplete", "badName"}

FetchList == \E resp \in Responses : handleFetchList(resp)
LoadVoices == \E resp \in Responses : loadCustomVoices(resp)
Transcribe == \E resp \in Responses : \E uploadFile \in BOOLEAN : handleTranscribe(resp, uploadFile)
Upload == \E resp \in Responses : \E form \in FormStates : handleUpload(resp, form)
DeleteVoice == \E resp \in Responses : SettingsMenu_handleDelete(resp)
DeleteListedVoice == \E resp \in Responses : ModelVoiceSelector_handleDelete(resp)
SpeechCaught == \E resp \in Responses : speechCaught(resp)

NextGateway ==
  \/ FetchList
  \/ LoadVoices
  \/ Transcribe
  \/ Upload
  \/ DeleteVoice
  \/ DeleteListedVoice
  \/ SpeechCaught

\* the session until App is unmounted: an unmounted component runs no handler and
\* ignores the state updates of the calls still in flight; a timer left armed fires
NextSession ==
  \/ mounted /\ Submit
  \/ mounted /\ handleStop
  \/ mounted /\ SynthResolved
  \/ mounted /\ SynthRejected
  \/ mounted /\ DelayElapsed
  \/ mounted /\ FetchResolved
  \/ mounted /\ BlobResolved
  \/ mounted /\ EncodeResolved
  \/ mounted /\ Delete
  \/ mounted /\ handleClearCache
  \/ Save
  \/ unmount

SpecSession == Init /\ [][NextSession]_vars

SynthRejectedAgain == \E i \in TaskIndex : synthRejectedAgain(i)
DelayElapsedAgain == \E i \in TaskIndex : delayElapsedAgain(i)
DelayElapsedBelowCap ==
  \E i \in TaskIndex : (attempt[i] < MaxAttempts \/ stopGenerationRef) /\ delayElapsed(i)

\* the calls in flight settle and the delays elapse, with a gateway that may fail for ever
TaskStepStop ==
  \/ SynthResolved
  \/ SynthRejected
  \/ SynthRejectedAgain
  \/ DelayElapsedBelowCap
  \/ DelayElapsedAgain
  \/ FetchResolved
  \/ BlobResolved
  \/ EncodeResolved

InitStop == Init /\ apiKey /\ ~isAutoPlayEnabled

NextStop ==
  \/ Submit
  \/ handleStop
  \/ SynthResolved
  \/ SynthRejected
  \/ SynthRejectedAgain
  \/ DelayElapsedBelowCap
  \/ DelayElapsedAgain
  \/ FetchResolved
  \/ BlobResolved
  \/ EncodeResolved
  \/ Delete
  \/ handleClearCache
  \/ Save

\* the pipeline of any model in either dispatch mode; every call in flight eventually
\* settles, and the gateway of a retry-prone model may reject every attempt
SpecStop == InitStop /\ [][NextStop]_vars /\ WF_vars(TaskStepStop)

\* the settings panel and the voice selector opened on an empty history
InitGateway == Init /\ messages = << >> /\ enableSplit /\ ~isAutoPlayEnabled

\* the gateway called by each of its handlers, with any response of the provider
SpecGateway == InitGateway /\ [][NextGateway]_vars

----------------------------------------------------------------------------
(* Vocabulary of the properties *)

Terminal(m) == m.status \in {"success", "error"}

\* the terminal records of a list, in list order, as (id, status) pairs
TerminalSeq(msgs) ==
  LET t == SelectSeq(msgs, Terminal)
  IN [k \in 1..Len(t) |-> << t[k].id, t[k].status >>]

RECURSIVE IsSubSeq(_, _)
IsSubSeq(a, b) ==
  IF a = << >> THEN TRUE
  ELSE IF b = << >> THEN FALSE
  ELSE IF Head(a) = Head(b) THEN IsSubSeq(Tail(a), Tail(b))
  ELSE IsSubSeq(a, Tail(b))

NoPending(msgs) == \A k \in 1..Len(msgs) : msgs[k].status # "pending"

RecordsOf(i) == {k \in 1..Len(messages) : messages[k].id = tasks[i].id}

Sequential == ~enableConcurrent

IndexTTS == "IndexTeam/IndexTTS-2"

----------------------------------------------------------------------------
(* C1 *)

\* C1: a record that has reached success or error never changes status again and
\* never leaves the list except by explicit user deletion (delete or clear): in every
\* other step the terminal records of the list, with their statuses, are still there.
C1_TerminalRecordsAreFinal ==
  [][ \/ \E id \in Ids(messages) : handleDeleteMessage(id)
      \/ handleClearCache
      \/ IsSubSeq(TerminalSeq(messages), TerminalSeq(messages')) ]_vars

----------------------------------------------------------------------------
(* C2 *)

\* C2: whenever the pipeline is not busy, the message list contains no pending
\* record and the cancellation flag is false.
C2_IdleHasNoPending ==
  ~isLoading => NoPending(messages) /\ ~stopGenerationRef

----------------------------------------------------------------------------
(* C3 *)

\* C3: a task that ended at a stop check is never recorded as an error: no error
\* log is produced for it and no record carries its cancellation message.
C3_CancelledIsNotAnError ==
  \A i \in 1..Len(tasks) :
    outcome[i] = "cancelled" =>
      /\ logs[i].error = 0
      /\ \A k \in RecordsOf(i) : messages[k].errorMessage # UserStoppedMsg

----------------------------------------------------------------------------
(* C4 *)

\* C4: once a stop request has been made during a batch no synthesis attempt is
\* started for that batch (no first attempt, no retry), and the stop request itself
\* leaves every call in flight where it is.
C4_NoAttemptAfterStop ==
  [][ /\ (isLoading /\ stopRequested) => attempt' = attempt
      /\ (isLoading /\ ~stopRequested /\ stopRequested') =>
            (pc' = pc /\ attempt' = attempt /\ messages' = messages) ]_vars

\* a call that was in flight when stop was requested has run to completion and its
\* task has ended at the stop check, while a later task was never started
C4_Witness ==
  /\ isLoading = FALSE /\ stopRequested
  /\ \E i \in 1..Len(tasks) : outcome[i] = "cancelled" /\ attempt[i] >= 1
  /\ \E j \in 1..Len(tasks) : attempt[j] = 0

----------------------------------------------------------------------------
(* C5 *)

\* C5: at the end of a sequential batch that was cancelled, the records of the tasks
\* that were not reconciled (never dispatched, or cancelled) are absent from the list,
\* and the record of a task that was reconciled has the state the task resolved to.
C5_UnprocessedAreAbsent ==
  (Sequential /\ ~isLoading /\ stopRequested) =>
    \A i \in 1..Len(tasks) :
      /\ outcome[i] \notin {"ok", "failed"} => tasks[i].id \notin Ids(messages)
      /\ outcome[i] = "ok" => \A k \in RecordsOf(i) : messages[k].status = "success"
      /\ outcome[i] = "failed" => \A k \in RecordsOf(i) : messages[k].status = "error"

----------------------------------------------------------------------------
(* C6 *)

C6_Inv ==
  (selectedModel = IndexTTS /\ ~stopRequested) =>
    \A i \in 1..Len(tasks) :
      /\ outcome[i] \in {"none", "ok"}
      /\ logs[i].error = 0
      /\ logs[i].warning = failures[i]
      /\ \A k \in RecordsOf(i) : messages[k].status # "error"
      /\ (pc[i] \in {"fetch", "blob", "encode"} \/ outcome[i] = "ok") =>
            attempt[i] = failures[i] + 1
      /\ outcome[i] = "ok" =>
            \A k \in RecordsOf(i) : messages[k].status = "success"

C6_DelayBetweenAttempts ==
  \A i \in 1..Len(tasks) :
    (now' = now /\ attempt[i] >= 1 /\ attempt'[i] > attempt[i]) =>
       (pc[i] = "delay" /\ attempt'[i] = attempt[i] + 1)

\* C6: for the IndexTTS model and no stop request, a task whose synthesis failed k
\* times has logged exactly k retry warnings and no error, is never moved to error,
\* makes each further attempt only out of the retry delay, is at attempt k + 1 when
\* its synthesis succeeds and ends with its record in status success; and as the
\* gateway eventually succeeds every task eventually ends in success (or a stop
\* request is made).
C6_RetryUntilSuccess ==
  /\ []C6_Inv
  /\ [][C6_DelayBetweenAttempts]_vars
  /\ \A i \in 1..MaxSegments :
       (i <= Len(tasks) /\ isLoading /\ outcome[i] = "none")
         ~> (stopRequested \/ (i <= Len(tasks) /\ outcome[i] = "ok"))

\* a task that failed twice, logged two warnings and succeeded at its third attempt
C6_Witness ==
  /\ selectedModel = IndexTTS /\ ~stopRequested /\ ~isLoading
  /\ \E i \in 1..Len(tasks) :
       /\ failures[i] = 2 /\ attempt[i] = 3 /\ logs[i].warning = 2
       /\ outcome[i] = "ok"
       /\ \E k \in RecordsOf(i) : messages[k].status = "success"

----------------------------------------------------------------------------
(* C7 *)

\* C7: for a model outside the IndexTTS family every task makes at most one
\* synthesis attempt: a failed attempt is never retried (no delay, no retry warning)
\* and ends the task at once.
C7_SingleAttempt ==
  selectedModel # IndexTTS =>
    \A i \in 1..Len(tasks) :
      /\ attempt[i] <= 1
      /\ pc[i] # "delay"
      /\ logs[i].warning = 0
      /\ failures[i] >= 1 => (failures[i] = 1 /\ pc[i] = "done" /\ outcome[i] = "failed")
      /\ outcome[i] \in {"ok", "failed"} => attempt[i] = 1

\* a batch in which one task failed at its single attempt and another succeeded at its own
C7_Witness ==
  /\ selectedModel # IndexTTS /\ ~isLoading
  /\ \E i, j \in 1..Len(tasks) :
       /\ outcome[i] = "failed" /\ attempt[i] = 1 /\ failures[i] = 1
       /\ outcome[j] = "ok" /\ attempt[j] = 1

----------------------------------------------------------------------------
(* C8 *)

\* C8: a batch that was not cancelled ends with every task dispatched and settled to
\* its own outcome: the record of a task that failed is in status error with the
\* failure message, the record of a task that succeeded is in status success.
C8_FailureIsLocal ==
  (~isLoading /\ ~stopRequested) =>
    \A i \in 1..Len(tasks) :
      /\ outcome[i] \in {"ok", "failed"}
      /\ \A k \in RecordsOf(i) :
           /\ outcome[i] = "failed" => messages[k].status = "error"
           /\ outcome[i] = "ok" => messages[k].status = "success"

----------------------------------------------------------------------------
(* C9 *)

NewestFirst(msgs) ==
  \A k, l \in 1..Len(msgs) : k < l => msgs[k].id.t >= msgs[l].id.t

C9_Insertion ==
  now' # now =>
    /\ Len(tasks') >= 1
    /\ messages' = [k \in 1..Len(tasks') |->
                      [id |-> tasks'[k].id, text |-> tasks'[k].text, audioUrl |-> << >>,
                       status |-> "pending", errorMessage |-> ""]] \o messages
    /\ \A i \in 1..Len(tasks) : pc[i] \in {"new", "done"}

\* C9: a submission inserts, in one list update, one pending record per task in task
\* order in front of all existing records, which keep their content and order; no
\* call of an earlier batch is outstanding then, and the list is always newest-first.
C9_PlaceholdersInFront ==
  /\ [][C9_Insertion]_vars
  /\ [](NewestFirst(messages))

\* two placeholders, in segment order, in front of the record loaded from storage
C9_Witness ==
  /\ isLoading /\ Len(tasks) = 2 /\ Len(messages) = 3
  /\ messages[1].status = "pending" /\ messages[1].text = << "a" >>
  /\ messages[2].status = "pending" /\ messages[2].text = << "b" >>
  /\ messages[3] = HistoryRecord(1)

----------------------------------------------------------------------------
(* C10 *)

\* the lines of a text, described by the positions of its newlines
Boundaries(text) == {0, Len(text) + 1} \cup {p \in 1..Len(text) : text[p] = NL}

LineEnd(text, b) == CHOOSE q \in Boundaries(text) :
                      q > b /\ \A r \in Boundaries(text) : r > b => q <= r

Ink(text, b) == {p \in (b + 1)..(LineEnd(text, b) - 1) : text[p] \notin Whitespace}

NonBlankLines(text) == {b \in Boundaries(text) \ {Len(text) + 1} : Ink(text, b) # {}}

Min(S) == CHOOSE x \in S : \A y \in S : x <= y
Max(S) == CHOOSE x \in S : \A y \in S : y <= x

\* the k-th smallest element of a set of numbers
RECURSIVE Nth(_, _)
Nth(S, k) == IF k = 1 THEN Min(S) ELSE Nth(S \ {Min(S)}, k - 1)

ExpectedSegments(text) ==
  [k \in 1..Cardinality(NonBlankLines(text)) |->
     LET b == Nth(NonBlankLines(text), k)
     IN SubSeq(text, Min(Ink(text, b)), Max(Ink(text, b)))]

\* C10: with auto-split the tasks of a submission are exactly the non-blank lines of
\* the text, each stripped of its leading and trailing whitespace, in text order;
\* without it there is exactly one task and it carries the whole text.
C10_TasksFollowSplitSetting ==
  submitted # << >> =>
    IF enableSplit
    THEN [k \in 1..Len(tasks) |-> tasks[k].text] = ExpectedSegments(submitted)
    ELSE Len(tasks) = 1 /\ tasks[1].text = submitted

\* a text with a blank first line and padded lines, split into its two trimmed lines
C10_Witness ==
  /\ enableSplit
  /\ submitted = << NL, "a", NL, "b" >> \/ submitted = << " ", "a", NL, "b" >>
  /\ Len(tasks) = 2 /\ tasks[1].text = << "a" >> /\ tasks[2].text = << "b" >>

----------------------------------------------------------------------------
(* C11 *)

Blank(text) == text # << >> /\ \A p \in 1..Len(text) : text[p] \in Whitespace

\* C11: with auto-split on and a credential set, handing handleGenerate a text made
\* of whitespace only logs a warning and changes nothing else: the list, the store,
\* the tasks and their calls, the active id and the save timer are as before, and
\* the pipeline is left not busy with the cancellation flag false.
C11_BlankSubmissionHasNoEffect ==
  [][ (enableSplit /\ apiKey /\ Blank(submitted')) =>
        /\ generateLog' = NoValidTextLog
        /\ ~isLoading' /\ ~stopGenerationRef'
        /\ messages' = messages /\ storage' = storage
        /\ tasks' = tasks /\ pc' = pc /\ attempt' = attempt /\ now' = now
        /\ activePlayingId' = activePlayingId /\ saveTimer' = saveTimer ]_vars

\* a whitespace-only text was handed over: warning logged, history untouched, idle
C11_Witness ==
  /\ enableSplit /\ Blank(submitted) /\ NL \in {submitted[p] : p \in 1..Len(submitted)}
  /\ generateLog = NoValidTextLog
  /\ messages = History(1) /\ tasks = << >>
  /\ ~isLoading /\ ~stopGenerationRef

----------------------------------------------------------------------------
(* C12 *)

Outstanding(i) == pc[i] \in {"synth", "delay", "fetch", "blob", "encode"}

\* C12: in concurrent dispatch every task of the batch has had its call started since
\* the submission, whatever the state of the other tasks, and the pipeline is busy as
\* long as the call of any task has not settled, also after a stop request.
C12_BusyUntilAllSettled ==
  enableConcurrent =>
    \A i \in 1..Len(tasks) :
      /\ attempt[i] >= 1 /\ pc[i] # "new"
      /\ Outstanding(i) => isLoading

\* after a stop request one call has settled and another is still outstanding: busy
C12_Witness ==
  /\ enableConcurrent /\ stopRequested /\ isLoading
  /\ \E i, j \in 1..Len(tasks) : pc[i] = "done" /\ Outstanding(j)

----------------------------------------------------------------------------
(* C13 *)

\* C13: in sequential dispatch at most one task is outstanding at a time, a task has
\* been started only if its predecessor was reconciled to success or to error, and
\* the tasks therefore settle in submission order.
C13_OneAtATimeInOrder ==
  Sequential =>
    /\ Cardinality({i \in 1..Len(tasks) : Outstanding(i)}) <= 1
    /\ \A i \in 1..Len(tasks) : i > 1 /\ attempt[i] >= 1 =>
         \/ outcome[i - 1] = "ok" /\ logs[i - 1].success = 1
         \/ outcome[i - 1] = "failed" /\ logs[i - 1].error = 1
    /\ \A i, j \in 1..Len(tasks) : i < j /\ pc[j] = "done" => pc[i] = "done"

\* the second task is in flight after the first one was reconciled to error
C13_Witness ==
  /\ Sequential /\ Len(tasks) = 2
  /\ outcome[1] = "failed" /\ logs[1].error = 1
  /\ \E k \in RecordsOf(1) : messages[k].status = "error"
  /\ pc[2] = "fetch"

----------------------------------------------------------------------------
(* C14 *)

\* C14: the persisted history never holds a pending record, and whenever the store
\* is written, in or out of a batch, what is written is made of records of the list
\* that are not pending at that moment.
C14_PersistedNeverPending ==
  /\ [](NoPending(storage))
  /\ [][ storage' # storage =>
           \A k \in 1..Len(storage') :
             \E j \in 1..Len(messages) :
               messages[j] = storage'[k] /\ messages[j].status # "pending" ]_vars

\* a save fired in mid-batch: a record of the batch is stored, another one is pending
C14_Witness ==
  /\ isLoading /\ ~saveTimer
  /\ \E j \in 1..Len(messages) : messages[j].status = "pending"
  /\ \E k \in 1..Len(storage) : storage[k].id.t = 1

----------------------------------------------------------------------------
(* C15 *)

SuccessAt(msgs) == {k \in 1..Len(msgs) : msgs[k].status = "success"}

\* the list without its k-th record, the others as they were
Without(msgs, k) ==
  [j \in 1..(Len(msgs) - 1) |-> IF j < k THEN msgs[j] ELSE msgs[j + 1]]

\* C15: a save that fails on the quota while the list is not empty removes exactly
\* one record, the success record closest to the tail if there is a success record
\* and the last record otherwise, leaves the other records and their order alone,
\* writes nothing to the store and arms a new save.
C15_EvictsOneRecord ==
  [][ (saveMessagesToStorage(TRUE) /\ Len(messages) > 0) =>
        /\ \E k \in 1..Len(messages) :
             /\ messages' = Without(messages, k)
             /\ IF SuccessAt(messages) # {}
                THEN k \in SuccessAt(messages) /\ \A j \in SuccessAt(messages) : j <= k
                ELSE k = Len(messages)
        /\ storage' = storage
        /\ saveTimer' ]_vars

\* the oldest success record was evicted from under an error record and a success
\* record of the batch, and a new save is armed
C15_Witness ==
  /\ Len(messages) = 2 /\ storage = History(1) /\ saveTimer
  /\ messages[1].status = "success" /\ messages[1].id.t = 1
  /\ messages[2].status = "error" /\ messages[2].id.t = 1

\* nothing but pending and error records: the last record was evicted
C15_WitnessNoSuccess ==
  /\ Len(messages) = 1 /\ Len(tasks) = 2 /\ isLoading /\ saveTimer
  /\ messages[1].status = "error" /\ messages[1].id = tasks[1].id
  /\ pc[2] # "done" /\ tasks[2].id # tasks[1].id

----------------------------------------------------------------------------
(* C16 *)

Cleared == messages = << >> /\ storage = << >> /\ activePlayingId = NoId

\* C16: a clear leaves the list empty, the active id none and the store without a
\* message, and nothing but a submission ends that: not a save that was armed
\* before or after the clear, nor the reconciliation of a task still in flight.
C16_ClearedUntilNextSubmission ==
  [][ /\ handleClearCache => Cleared'
      /\ (Cleared /\ now' = now) => Cleared' ]_vars

\* cleared in or after a batch of which a task succeeded, and the save has fired since
C16_Witness ==
  /\ Cleared /\ ~saveTimer /\ now = 1
  /\ \E i \in 1..Len(tasks) : outcome[i] = "ok"

----------------------------------------------------------------------------
(* C17 *)

\* the cards rendered with isActive: activePlayingId === msg.id
ActiveCards == {k \in 1..Len(messages) : messages[k].id = activePlayingId}

\* C17: at most one card of the list is the active one, whatever was played, ended,
\* deleted or cleared before (pausing a card leaves the state of the list as it is).
C17_SingleActiveMessage == Cardinality(ActiveCards) <= 1

----------------------------------------------------------------------------
(* C18 *)

\* the active cards whose audio element can raise the ended event
PlayingCards == {k \in ActiveCards : messages[k].status = "success"}

\* C18: whichever card ends, the active id installed is none with auto-play off;
\* with auto-play on it is the id of the card right below the one that ended if
\* there is one and it is a success card, and none otherwise.
C18_ChainAdvancesByOne ==
  \A k \in PlayingCards :
    NextActiveId(messages[k].id) =
      IF isAutoPlayEnabled /\ k + 1 <= Len(messages) /\ messages[k + 1].status = "success"
      THEN messages[k + 1].id
      ELSE NoId

----------------------------------------------------------------------------
(* C19 *)

\* C19: deleting the message with an id removes exactly one record, the one with
\* that id, leaves the others and their order alone, and clears the active id if
\* and only if it was that id.
C19_DeleteRemovesOneRecord ==
  [][ \A id \in Ids(messages) : handleDeleteMessage(id) =>
        /\ \E k \in 1..Len(messages) :
             messages[k].id = id /\ messages' = Without(messages, k)
        /\ activePlayingId' = IF activePlayingId = id THEN NoId ELSE activePlayingId ]_vars

----------------------------------------------------------------------------
(* C20 *)

\* C20: no two records of the message list have the same id.
C20_IdsAreUnique ==
  \A k, l \in 1..Len(messages) : k # l => messages[k].id # messages[l].id

----------------------------------------------------------------------------
\* the name an operation goes by in its generic message
Operation(op) ==
  CASE op = "generateSpeech" -> "Speech generation"
    [] op = "fetchCustomVoices" -> "Fetch voices"
    [] op = "transcribeAudio" -> "Transcription"
    [] op = "uploadCustomVoice" -> "Upload"
    [] op = "deleteCustomVoice" -> "Delete"

\* the messages the normalization policy allows for a non-success response
Normalized(resp, op) ==
  LET body == resp.body
  IN IF body.parses /\ body.message # ""
     THEN {body.message} \cup
          (IF body.code # 0
           THEN {body.message \o " (Code: " \o ToString(body.code) \o ")"} ELSE {})
     ELSE IF Len(body.raw) < ShortLimit THEN {body.raw}
     ELSE {Operation(op) \o " failed (" \o ToString(resp.status) \o ")"}

\* C22: each of the five gateway operations turns a non-success HTTP response into
\* an error by the same normalization: the message field of the body (with or
\* without the provider code appended) when the body parses and has one, otherwise
\* the raw body when it is short, otherwise "<operation> failed (<status>)".
C22_UniformNormalization ==
  (request # NoRequest /\ ~response.ok) => raised \in Normalized(response, request)

----------------------------------------------------------------------------
\* the handler rejected the request before calling the gateway: a missing
\* credential or a form that fails validation
RejectedRequest ==
  /\ caller \in {"handleFetchList", "handleTranscribe", "handleUpload"}
  /\ request = NoRequest

\* C21: every handled error path appends a user-visible log entry: when a handler
\* has caught a gateway failure, or has rejected a request for a missing
\* credential or an invalid form, it has passed an entry to the log before it
\* finished.
C21_HandledErrorsAreLogged ==
  (raised # NoError \/ RejectedRequest) => logEntry # NoEntry

----------------------------------------------------------------------------
\* the awaits of processSingleTask
InFlight == {"synth", "delay", "fetch", "blob", "encode"}

\* task i resumes from the await it was suspended at
Resumes(i) == pc[i] \in InFlight /\ pc'[i] # pc[i]

\* C23: the cancellation flag is observed at every suspension-point boundary: once
\* it is set, a task of the batch that resumes from any of its awaits (synthesis,
\* the fetch of the audio payload, the encoding, the retry delay) ends there with
\* the cancelled outcome, or with the failure of the call it was waiting for, and
\* no record is reconciled to success.
C23_StopObservedAtEveryAwait ==
  [][ \A i \in 1..Len(tasks) :
        (stopGenerationRef /\ tasks' = tasks /\ Resumes(i)) =>
           /\ pc'[i] = "done"
           /\ outcome'[i] = "cancelled" \/ failures'[i] > failures[i]
           /\ outcome'[i] # "ok" ]_vars

----------------------------------------------------------------------------
\* the ways the call of a task can end when nobody stops the batch
Endings == {"ok", "Speech generation failed (500)"}

\* the reconciliation task i applies to the then-current list when its call ends
Reconcile(msgs, i, ending) ==
  IF ending = "ok" THEN MarkSuccess(msgs, tasks[i]) ELSE MarkError(msgs, tasks[i], ending)

\* C24: concurrent reconciliations commute: while two tasks of a concurrently
\* dispatched batch are in flight, whatever way each of their calls ends, applying
\* the two reconciliations to the current list in either order gives the same list.
C24_ReconciliationsCommute ==
  (enableConcurrent /\ isLoading) =>
    \A i, j \in 1..Len(tasks) :
      (i # j /\ pc[i] \in InFlight /\ pc[j] \in InFlight) =>
        \A ei, ej \in Endings :
          Reconcile(Reconcile(messages, i, ei), j, ej)
            = Reconcile(Reconcile(messages, j, ej), i, ei)

----------------------------------------------------------------------------
\* localStorage.setItem has run: the stored list changed and the timer is spent
Written == storage' # storage /\ ~saveTimer'

\* C25: persistence is debounced: every mutation of the message list leaves a
\* freshly armed timer that holds the new list; the store is written only by a
\* timer that fires while the session is running and holds the list as it is at
\* that moment, the write serializes that list and spends the timer, so a burst of
\* mutations is followed by one write; the only other change of the store is the
\* clearing of the history; nothing is written after the session has ended.
C25_SaveIsDebounced ==
  [][ /\ messages' # messages => (saveTimer' /\ armedWith' = messages')
      /\ Written => /\ mounted /\ saveTimer
                    /\ armedWith = messages
                    /\ messages' = messages
                    /\ storage' = MessagesToSave(messages)
      /\ (storage' # storage /\ ~Written) => (storage' = << >> /\ messages' = << >>)
      /\ ~mounted => (~saveTimer /\ storage' = storage) ]_vars

\* both records of a batch were reconciled and then written by one firing
C25_Witness ==
  /\ mounted /\ ~isLoading /\ ~saveTimer
  /\ Len(tasks) = 2
  /\ Len(messages) = 2
  /\ \A k \in 1..2 : messages[k].status = "success"
  /\ storage = messages

----------------------------------------------------------------------------
\* C26: a stop request made while the pipeline is busy eventually leads to the
\* pipeline being not busy, provided every call in flight eventually settles; in
\* both dispatch modes, and for a retry-prone model whose gateway rejects every
\* attempt, where the retry loop would otherwise never end.
C26_StopEndsTheBatch ==
  (isLoading /\ stopRequested) ~> ~isLoading

\* a retry-prone model, every attempt rejected up to the cap of the counters, then
\* stopped: the batch has ended with the task cancelled
C26_Witness ==
  /\ selectedModel = IndexTTS /\ stopRequested /\ ~isLoading
  /\ \E i \in 1..Len(tasks) :
        /\ attempt[i] = MaxAttempts
        /\ failures[i] = MaxAttempts
        /\ outcome[i] = "cancelled"

====
